---- MODULE Spec2Model ----
(***************************************************************************)
(* A model of the PNG chunk tool: the Chunk value (src/src/chunk.rs) and   *)
(* the four commands (src/src/commands.rs).  Bytes are integers 0..255,    *)
(* byte strings are sequences of bytes, and a u32 is kept as its four      *)
(* big-endian bytes, so that no value leaves the 32-bit range.             *)
(***************************************************************************)
EXTENDS Integers, Sequences, FiniteSets, TLC

VARIABLES
    chunk,      \* chunk runs: the Chunk built by Chunk::new (NoChunk before)
    buf,        \* chunk runs: the byte buffer handed to Chunk::try_from
    tamper,     \* chunk runs: what happened to buf since Chunk::as_bytes wrote it
    parsed,     \* chunk runs: the result of Chunk::try_from(buf) (NoResult: not parsed)
    fs,         \* command runs: the files, by path
    cmd,        \* command runs: the last command and its arguments
    loaded,     \* command runs: the chunks get_png returned to the last command
    png,        \* command runs: the chunks of the command's Png when it ended
    status,     \* command runs: how the last command ended, and where
    stdout,     \* command runs: the lines the last command printed
    steps       \* command runs: the number of commands run so far

chunkVars == << chunk, buf, tamper, parsed >>
cmdVars == << fs, cmd, loaded, png, status, stdout, steps >>
vars == << chunk, buf, tamper, parsed, fs, cmd, loaded, png, status, stdout, steps >>

(***************************************************************************)
(* Bounds of the model.                                                    *)
(***************************************************************************)
\* longest payload of a chunk built through Chunk::new in the chunk runs
MaxLen == 2

\* commands per run
MaxSteps == 2

\* the byte values payloads are drawn from: NUL, 'h', a UTF-8 lead byte,
\* a UTF-8 continuation byte, and 0xFF (never valid in UTF-8)
ByteSamples == {0, 104, 195, 169, 255}

(***************************************************************************)
(* Bit and byte arithmetic.                                                *)
(***************************************************************************)
RECURSIVE XorBits(_, _)
XorBits(a, b) ==
    IF a = 0 THEN b
    ELSE IF b = 0 THEN a
    ELSE ((a + b) % 2) + 2 * XorBits(a \div 2, b \div 2)

\* the exclusive or of two 4-bit values, tabulated (a, b at index a * 16 + b + 1)
XorNibble == [ k \in 1..256 |-> XorBits((k - 1) \div 16, (k - 1) % 16) ]

\* the exclusive or of two values below 2^16
Xor(a, b) ==
    IF a < 256 /\ b < 256
    THEN XorNibble[(a \div 16) * 16 + (b \div 16) + 1] * 16
         + XorNibble[(a % 16) * 16 + (b % 16) + 1]
    ELSE XorBits(a, b)

RECURSIVE Pow2(_)
Pow2(n) == IF n = 0 THEN 1 ELSE 2 * Pow2(n - 1)

\* u32::to_be_bytes of a length that fits 31 bits
to_be_bytes(n) ==
    << (n \div 16777216) % 256, (n \div 65536) % 256, (n \div 256) % 256, n % 256 >>

\* the 16-bit halves of the reflected CRC-32 polynomial 0xEDB88320
PolyHi == 60856
PolyLo == 33568

\* one bit of the reflected CRC register, kept as <<high 16 bits, low 16 bits>>
CrcShift(c) ==
    LET hi == c[1] \div 2
        lo == (c[2] \div 2) + (c[1] % 2) * 32768
    IN  IF c[2] % 2 = 1 THEN << Xor(hi, PolyHi), Xor(lo, PolyLo) >> ELSE << hi, lo >>

RECURSIVE CrcShiftN(_, _)
CrcShiftN(c, n) == IF n = 0 THEN c ELSE CrcShiftN(CrcShift(c), n - 1)

\* the table entry of byte i, as 4 big-endian bytes
CrcTableEntry(i) ==
    LET c == CrcShiftN(<< 0, i >>, 8)
    IN  << c[1] \div 256, c[1] % 256, c[2] \div 256, c[2] % 256 >>

RECURSIVE CrcTableRange(_, _)
CrcTableRange(lo, hi) ==
    IF lo = hi THEN << CrcTableEntry(lo) >>
    ELSE LET mid == (lo + hi) \div 2
         IN  CrcTableRange(lo, mid) \o CrcTableRange(mid + 1, hi)

\* the 256-entry table of crc::Crc::<u32>::new (entry i at index i + 1)
CrcTable == CrcTableRange(0, 255)

\* one byte of input: crc = table[(crc ^ b) & 0xFF] ^ (crc >> 8)
CrcUpdate(c, b) ==
    LET t == CrcTable[Xor(c[4], b) + 1]
    IN  << t[1], Xor(t[2], c[1]), Xor(t[3], c[2]), Xor(t[4], c[3]) >>

RECURSIVE CrcFold(_, _, _)
CrcFold(c, bytes, i) ==
    IF i > Len(bytes) THEN c ELSE CrcFold(CrcUpdate(c, bytes[i]), bytes, i + 1)

\* Crc::checksum for CRC_32_ISO_HDLC: init 0xFFFFFFFF, reflected, xorout 0xFFFFFFFF
checksum(bytes) ==
    LET c == CrcFold(<< 255, 255, 255, 255 >>, bytes, 1)
    IN  << 255 - c[1], 255 - c[2], 255 - c[3], 255 - c[4] >>

(***************************************************************************)
(* Results.  A Rust Result is a record: ok, the error (or "" when ok) and  *)
(* the value.  A panic is the error "panic".                               *)
(***************************************************************************)
NoChunk == [ chunk_type |-> << >>, data |-> << >>, crc |-> << >> ]

Ok(v) == [ ok |-> TRUE, err |-> "", val |-> v ]
Err(e) == [ ok |-> FALSE, err |-> e, val |-> NoChunk ]
Panic == Err("panic")
NoResult == Err("none")

(***************************************************************************)
(* ChunkType: 4 bytes, each an ASCII letter.                               *)
(***************************************************************************)
IsLetter(b) == (b >= 65 /\ b <= 90) \/ (b >= 97 /\ b <= 122)

\* ChunkType::try_from([u8; 4])
ChunkType_try_from(bytes) ==
    IF \A i \in 1..4 : IsLetter(bytes[i])
    THEN [ ok |-> TRUE, err |-> "", val |-> bytes ]
    ELSE [ ok |-> FALSE, err |-> "InvalidChunkType", val |-> << >> ]

(***************************************************************************)
(* Chunk.                                                                  *)
(***************************************************************************)
\* Chunk::new with the CRC taken over the data alone
Chunk_new_CrcOverData(chunk_type, data) ==
    [ chunk_type |-> chunk_type, data |-> data, crc |-> checksum(data) ]

\* Chunk::new: the CRC is taken over the type bytes followed by the data
Chunk_new(chunk_type, data) ==
    [ chunk_type |-> chunk_type, data |-> data, crc |-> checksum(chunk_type \o data) ]

\* Chunk::length: data.len() as u32 (every length of the model is below 2^31,
\* where the cast changes nothing)
Chunk_length(c) == Len(c.data)

\* Chunk::as_bytes with the length written little-endian
Chunk_as_bytes_LittleEndian(c) ==
    << Len(c.data) % 256, (Len(c.data) \div 256) % 256, (Len(c.data) \div 65536) % 256,
       (Len(c.data) \div 16777216) % 256 >> \o c.chunk_type \o c.data \o c.crc

\* Chunk::as_bytes
Chunk_as_bytes(c) ==
    to_be_bytes(Len(c.data)) \o c.chunk_type \o c.data \o c.crc

\* the fields of a chunk of at least 12 bytes and a valid type, unvalidated
ChunkFields(bytes) ==
    [ chunk_type |-> SubSeq(bytes, 5, 8),
      data |-> SubSeq(bytes, 9, Len(bytes) - 4),
      crc |-> SubSeq(bytes, Len(bytes) - 3, Len(bytes)) ]

\* Chunk::try_from validating the CRC against the data alone
Chunk_try_from_CrcOverData(bytes) ==
    IF Len(bytes) < 12 THEN Panic
    ELSE IF ~ChunkType_try_from(SubSeq(bytes, 5, 8)).ok THEN Err("InvalidChunkType")
    ELSE IF to_be_bytes(Len(bytes) - 12) # SubSeq(bytes, 1, 4)
    THEN Err("InvalidData: Invalid data length")
    ELSE IF checksum(SubSeq(bytes, 9, Len(bytes) - 4)) # ChunkFields(bytes).crc
    THEN Err("InvalidData: Invalid CRC")
    ELSE Ok(ChunkFields(bytes))

\* Chunk::try_from without the CRC validation
Chunk_try_from_NoCrcCheck(bytes) ==
    IF Len(bytes) < 12 THEN Panic
    ELSE IF ~ChunkType_try_from(SubSeq(bytes, 5, 8)).ok THEN Err("InvalidChunkType")
    ELSE IF to_be_bytes(Len(bytes) - 12) # SubSeq(bytes, 1, 4)
    THEN Err("InvalidData: Invalid data length")
    ELSE Ok(ChunkFields(bytes))

\* impl TryFrom<&[u8]> for Chunk.  Indexing a slice out of range panics.
Chunk_try_from(bytes) ==
    LET n == Len(bytes)
    IN  IF n < 4 THEN Panic                           \* bytes[0..4]
        ELSE IF n < 8 THEN Panic                      \* bytes[4] .. bytes[7]
        ELSE
          LET ct == ChunkType_try_from(SubSeq(bytes, 5, 8))
          IN  IF ~ct.ok THEN Err(ct.err)
              ELSE IF n - 4 < 8 THEN Panic            \* bytes[8..bytes.len() - 4]
              ELSE
                LET length == SubSeq(bytes, 1, 4)
                    data   == SubSeq(bytes, 9, n - 4)
                    crc    == SubSeq(bytes, n - 3, n)
                IN  IF to_be_bytes(Len(data)) # length
                    THEN Err("InvalidData: Invalid data length")
                    ELSE IF checksum(SubSeq(bytes, 5, n - 4)) # crc
                    THEN Err("InvalidData: Invalid CRC")
                    ELSE Ok([ chunk_type |-> ct.val, data |-> data, crc |-> crc ])

(***************************************************************************)
(* String::from_utf8: the well-formed byte sequences of UTF-8.             *)
(***************************************************************************)
IsCont(s, i) == i <= Len(s) /\ s[i] >= 128 /\ s[i] <= 191

InRange(s, i, lo, hi) == i <= Len(s) /\ s[i] >= lo /\ s[i] <= hi

\* the length of the well-formed sequence starting at s[i], or 0
Utf8SeqLen(s, i) ==
    LET b == s[i]
    IN  IF b <= 127 THEN 1
        ELSE IF b >= 194 /\ b <= 223 THEN (IF IsCont(s, i + 1) THEN 2 ELSE 0)
        ELSE IF b = 224 THEN (IF InRange(s, i + 1, 160, 191) /\ IsCont(s, i + 2) THEN 3 ELSE 0)
        ELSE IF b = 237 THEN (IF InRange(s, i + 1, 128, 159) /\ IsCont(s, i + 2) THEN 3 ELSE 0)
        ELSE IF b >= 225 /\ b <= 239 THEN (IF IsCont(s, i + 1) /\ IsCont(s, i + 2) THEN 3 ELSE 0)
        ELSE IF b = 240
             THEN (IF InRange(s, i + 1, 144, 191) /\ IsCont(s, i + 2) /\ IsCont(s, i + 3) THEN 4 ELSE 0)
        ELSE IF b >= 241 /\ b <= 243
             THEN (IF IsCont(s, i + 1) /\ IsCont(s, i + 2) /\ IsCont(s, i + 3) THEN 4 ELSE 0)
        ELSE IF b = 244
             THEN (IF InRange(s, i + 1, 128, 143) /\ IsCont(s, i + 2) /\ IsCont(s, i + 3) THEN 4 ELSE 0)
        ELSE 0

RECURSIVE ValidUtf8From(_, _)
ValidUtf8From(s, i) ==
    IF i > Len(s) THEN TRUE
    ELSE LET k == Utf8SeqLen(s, i)
         IN  IF k = 0 THEN FALSE ELSE ValidUtf8From(s, i + k)

from_utf8(s) ==
    IF ValidUtf8From(s, 1)
    THEN [ ok |-> TRUE, err |-> "", val |-> s ]
    ELSE [ ok |-> FALSE, err |-> "InvalidUtf8", val |-> << >> ]

\* Chunk::data_as_string
Chunk_data_as_string(c) == from_utf8(c.data)

\* impl Display for Chunk: data_as_string().unwrap()
Chunk_fmt(c) ==
    LET r == Chunk_data_as_string(c)
    IN  IF r.ok THEN r ELSE [ ok |-> FALSE, err |-> "panic", val |-> << >> ]

(***************************************************************************)
(* Png: the signature and an ordered sequence of chunks.                   *)
(***************************************************************************)
SIGNATURE == << 137, 80, 78, 71, 13, 10, 26, 10 >>

PngOk(chunks) == [ ok |-> TRUE, err |-> "", val |-> chunks ]
PngErr(e) == [ ok |-> FALSE, err |-> e, val |-> << >> ]

\* ChunkType::from_str
ChunkType_from_str(s) ==
    IF Len(s) # 4
    THEN [ ok |-> FALSE, err |-> "InvalidChunkType", val |-> << >> ]
    ELSE ChunkType_try_from(s)

\* the chunks of bytes from offset i on, each cut out by its declared length
RECURSIVE ParseChunks(_, _, _)
ParseChunks(bytes, i, acc) ==
    LET rest == Len(bytes) - i + 1
    IN  IF rest <= 0 THEN PngOk(acc)
        ELSE IF rest < 12 THEN PngErr("InvalidData: Invalid data length")
        ELSE IF bytes[i] # 0 \/ bytes[i + 1] # 0
        THEN PngErr("InvalidData: Invalid data length")
        ELSE
          LET length == bytes[i + 2] * 256 + bytes[i + 3]
          IN  IF 12 + length > rest THEN PngErr("InvalidData: Invalid data length")
              ELSE
                LET r == Chunk_try_from(SubSeq(bytes, i, i + 12 + length - 1))
                IN  IF ~r.ok THEN PngErr(r.err)
                    ELSE ParseChunks(bytes, i + 12 + length, Append(acc, r.val))

\* impl TryFrom<&[u8]> for Png
Png_try_from(bytes) ==
    IF Len(bytes) < 8 \/ SubSeq(bytes, 1, 8) # SIGNATURE
    THEN PngErr("InvalidSignature")
    ELSE ParseChunks(bytes, 9, << >>)

RECURSIVE ConcatChunks(_, _)
ConcatChunks(chunks, i) ==
    IF i > Len(chunks) THEN << >>
    ELSE Chunk_as_bytes(chunks[i]) \o ConcatChunks(chunks, i + 1)

\* Png::as_bytes
Png_as_bytes(chunks) == SIGNATURE \o ConcatChunks(chunks, 1)

\* Png::append_chunk
Png_append_chunk(chunks, c) == Append(chunks, c)

\* the index of the first chunk of type t, or 0
FirstOfType(chunks, t) ==
    LET hits == { i \in 1..Len(chunks) : chunks[i].chunk_type = t }
    IN  IF hits = {} THEN 0 ELSE CHOOSE i \in hits : \A j \in hits : i <= j

RemoveAt(chunks, i) == SubSeq(chunks, 1, i - 1) \o SubSeq(chunks, i + 1, Len(chunks))

\* Png::remove_first_chunk: the removed chunk (val) and the chunks left (rest)
Png_remove_first_chunk(chunks, type_str) ==
    LET ct == ChunkType_from_str(type_str)
        i  == FirstOfType(chunks, ct.val)
    IN  IF ~ct.ok THEN [ ok |-> FALSE, err |-> ct.err, val |-> NoChunk, rest |-> chunks ]
        ELSE IF i = 0
        THEN [ ok |-> FALSE, err |-> "ChunkNotFound", val |-> NoChunk, rest |-> chunks ]
        ELSE [ ok |-> TRUE, err |-> "", val |-> chunks[i], rest |-> RemoveAt(chunks, i) ]

\* Png::chunk_by_type: Some(chunk) is ok, None is not
Png_chunk_by_type(chunks, type_str) ==
    LET ct == ChunkType_from_str(type_str)
        i  == IF ct.ok THEN FirstOfType(chunks, ct.val) ELSE 0
    IN  IF i = 0 THEN Err("None") ELSE Ok(chunks[i])

(***************************************************************************)
(* The file system.                                                        *)
(***************************************************************************)
Paths == { "in.png", "out.png" }

NoFile == [ exists |-> FALSE, bytes |-> << >> ]
File(bytes) == [ exists |-> TRUE, bytes |-> bytes ]

\* fs::write creates (truncates) the file, then writes it all; either may fail
WriteOutcomes == { "ok", "create_failed", "write_failed" }

fs_write(fsys, path, bytes, w) ==
    IF w = "ok" THEN [ fsys EXCEPT ![path] = File(bytes) ]
    ELSE IF w = "write_failed" THEN [ fsys EXCEPT ![path] = File(<< >>) ]
    ELSE fsys

(***************************************************************************)
(* The commands.  Each yields the files afterwards, the chunks loaded, the *)
(* chunks of its Png at the end, how and where it ended, and its output.   *)
(* A command starts with get_png; the action that runs it makes that call  *)
(* and hands it the result, so that one load serves every choice of the    *)
(* other arguments.                                                        *)
(***************************************************************************)
Outcome(fsys, ld, p, result, stage, out) ==
    [ fs |-> fsys, loaded |-> ld, png |-> p,
      status |-> [ result |-> result, stage |-> stage ], stdout |-> out ]

\* get_png
get_png(fsys, file_path) ==
    IF ~fsys[file_path].exists THEN PngErr("Io: read")
    ELSE Png_try_from(fsys[file_path].bytes)

\* encode creating (truncating) the output file before it looks at the type
encode_TruncatesFirst(g, fsys, a, w) ==
    LET output_path == IF a.output_path # "" THEN a.output_path ELSE a.file_path
        opened == [ fsys EXCEPT ![output_path] = File(<< >>) ]
    IN  IF ~g.ok THEN Outcome(fsys, << >>, << >>, g.err, "load", << >>)
        ELSE IF Len(a.chunk_type) # 4
        THEN Outcome(opened, g.val, g.val, "panic", "type", << >>)
        ELSE IF ~ChunkType_try_from(a.chunk_type).ok
        THEN Outcome(opened, g.val, g.val, "InvalidChunkType", "type", << >>)
        ELSE
          LET p == Png_append_chunk(g.val, Chunk_new(a.chunk_type, a.message))
          IN  IF w # "ok"
              THEN Outcome(fs_write(opened, output_path, Png_as_bytes(p), w), g.val, p,
                           "Io: write", "write", << >>)
              ELSE Outcome(fs_write(opened, output_path, Png_as_bytes(p), w), g.val, p,
                           "Ok", "done", << >>)

\* encode writing back to file_path whatever output_path says
encode_IgnoresOutputPath(g, fsys, a, w) ==
        IF ~g.ok THEN Outcome(fsys, << >>, << >>, g.err, "load", << >>)
        ELSE IF Len(a.chunk_type) # 4
        THEN Outcome(fsys, g.val, g.val, "panic", "type", << >>)
        ELSE IF ~ChunkType_try_from(a.chunk_type).ok
        THEN Outcome(fsys, g.val, g.val, "InvalidChunkType", "type", << >>)
        ELSE
          LET p == Png_append_chunk(g.val, Chunk_new(a.chunk_type, a.message))
              after == fs_write(fsys, a.file_path, Png_as_bytes(p), w)
          IN  IF w # "ok" THEN Outcome(after, g.val, p, "Io: write", "write", << >>)
              ELSE Outcome(after, g.val, p, "Ok", "done", << >>)

\* encode, from the result g of its get_png(&args.file_path) on;
\* a.output_path = "" is None
encode(g, fsys, a, w) ==
        IF ~g.ok THEN Outcome(fsys, << >>, << >>, g.err, "load", << >>)
        ELSE IF Len(a.chunk_type) # 4
        THEN Outcome(fsys, g.val, g.val, "panic", "type", << >>)
        ELSE
          LET ct == ChunkType_try_from(a.chunk_type)
          IN  IF ~ct.ok THEN Outcome(fsys, g.val, g.val, ct.err, "type", << >>)
              ELSE
                LET p == Png_append_chunk(g.val, Chunk_new(ct.val, a.message))
                    output_path == IF a.output_path # "" THEN a.output_path
                                   ELSE a.file_path
                    after == fs_write(fsys, output_path, Png_as_bytes(p), w)
                IN  IF w # "ok" THEN Outcome(after, g.val, p, "Io: write", "write", << >>)
                    ELSE Outcome(after, g.val, p, "Ok", "done", << >>)

\* decode, from the result g of its get_png on
decode(g, fsys, a) ==
        IF ~g.ok THEN Outcome(fsys, << >>, << >>, g.err, "load", << >>)
        ELSE
          LET c == Png_chunk_by_type(g.val, a.chunk_type)
              t == Chunk_data_as_string(c.val)
          IN  IF ~c.ok THEN Outcome(fsys, g.val, g.val, "Ok", "done", << >>)
              ELSE IF ~t.ok THEN Outcome(fsys, g.val, g.val, t.err, "text", << >>)
              ELSE Outcome(fsys, g.val, g.val, "Ok", "done", << t.val >>)

\* remove writing the Png as it was loaded
remove_WritesLoaded(g, fsys, a, w) ==
        IF ~g.ok THEN Outcome(fsys, << >>, << >>, g.err, "load", << >>)
        ELSE
          LET r == Png_remove_first_chunk(g.val, a.chunk_type)
              after == fs_write(fsys, a.file_path, Png_as_bytes(g.val), w)
          IN  IF ~r.ok THEN Outcome(fsys, g.val, g.val, r.err, "op", << >>)
              ELSE IF w # "ok" THEN Outcome(after, g.val, r.rest, "Io: write", "write", << >>)
              ELSE Outcome(after, g.val, r.rest, "Ok", "done", << >>)

\* remove, from the result g of its get_png on
remove(g, fsys, a, w) ==
        IF ~g.ok THEN Outcome(fsys, << >>, << >>, g.err, "load", << >>)
        ELSE
          LET r == Png_remove_first_chunk(g.val, a.chunk_type)
              after == fs_write(fsys, a.file_path, Png_as_bytes(r.rest), w)
          IN  IF ~r.ok THEN Outcome(fsys, g.val, g.val, r.err, "op", << >>)
              ELSE IF w # "ok" THEN Outcome(after, g.val, r.rest, "Io: write", "write", << >>)
              ELSE Outcome(after, g.val, r.rest, "Ok", "done", << >>)

\* the loop of print from chunk i on: the lines printed, and whether it ran through
RECURSIVE PrintLoop(_, _, _)
PrintLoop(chunks, i, out) ==
    IF i > Len(chunks) THEN [ result |-> "Ok", stdout |-> out ]
    ELSE LET t == Chunk_fmt(chunks[i])
         IN  IF ~t.ok THEN [ result |-> t.err, stdout |-> out ]
             ELSE PrintLoop(chunks, i + 1, Append(out, t.val))

\* print, from the result g of its get_png on
print(g, fsys) ==
        IF ~g.ok THEN Outcome(fsys, << >>, << >>, g.err, "load", << >>)
        ELSE
          LET l == PrintLoop(g.val, 1, << >>)
          IN  Outcome(fsys, g.val, g.val, l.result,
                      IF l.result = "Ok" THEN "done" ELSE "text", l.stdout)

\* no command has run yet
NoCmd ==
    [ name |-> "none", file_path |-> "", chunk_type |-> << >>, message |-> << >>,
      output_path |-> "" ]

(***************************************************************************)
(* The chunk runs: a chunk is built, serialized, the bytes are possibly    *)
(* damaged (one bit flipped, or cut short), and parsed back.               *)
(***************************************************************************)
\* "RuSt" and "teSt"
TypeSamples == { << 82, 117, 83, 116 >>, << 116, 101, 83, 116 >> }

Payloads == UNION { [ 1..k -> ByteSamples ] : k \in 0..MaxLen }

\* the field of a serialized chunk of n bytes that byte i lies in
Region(i, n) ==
    IF i <= 4 THEN "length"
    ELSE IF i <= 8 THEN "type"
    ELSE IF i <= n - 4 THEN "data"
    ELSE "crc"

ChunkInit ==
    /\ chunk = NoChunk
    /\ buf = << >>
    /\ tamper = "unset"
    /\ parsed = NoResult
    /\ fs = [ p \in Paths |-> NoFile ]
    /\ cmd = NoCmd
    /\ loaded = << >>
    /\ png = << >>
    /\ status = [ result |-> "none", stage |-> "none" ]
    /\ stdout = << >>
    /\ steps = 0

New ==
    /\ chunk = NoChunk
    /\ \E t \in TypeSamples, d \in Payloads : chunk' = Chunk_new(t, d)
    /\ UNCHANGED << buf, tamper, parsed >>
    /\ UNCHANGED cmdVars

Serialize ==
    /\ chunk # NoChunk
    /\ tamper = "unset"
    /\ buf' = Chunk_as_bytes(chunk)
    /\ tamper' = "none"
    /\ parsed' = NoResult
    /\ UNCHANGED chunk
    /\ UNCHANGED cmdVars

FlipBit ==
    /\ tamper = "none"
    /\ parsed = NoResult
    /\ \E i \in 1..Len(buf), k \in 0..7 :
         /\ buf' = [ buf EXCEPT ![i] = Xor(buf[i], Pow2(k)) ]
         /\ tamper' = Region(i, Len(buf))
    /\ UNCHANGED << chunk, parsed >>
    /\ UNCHANGED cmdVars

Truncate ==
    /\ tamper = "none"
    /\ parsed = NoResult
    /\ \E k \in 0..(Len(buf) - 1) : buf' = SubSeq(buf, 1, k)
    /\ tamper' = "truncated"
    /\ UNCHANGED << chunk, parsed >>
    /\ UNCHANGED cmdVars

TryFrom ==
    /\ parsed = NoResult
    /\ parsed' = Chunk_try_from(buf)
    /\ UNCHANGED << chunk, buf, tamper >>
    /\ UNCHANGED cmdVars

ChunkNext == New \/ Serialize \/ FlipBit \/ Truncate \/ TryFrom

SpecChunk == ChunkInit /\ [][ChunkNext]_vars
(***************************************************************************)
(* Properties of the chunk runs.                                           *)
(***************************************************************************)
\* C1: a chunk built by Chunk::new (any sampled type, any payload, the empty
\* one too), serialized by as_bytes and parsed by try_from, parses, and the
\* parsed chunk has the same type, the same payload and the same CRC.
C1_RoundTrip ==
    (tamper = "none" /\ parsed # NoResult) =>
        /\ parsed.ok
        /\ parsed.val.chunk_type = chunk.chunk_type
        /\ parsed.val.data = chunk.data
        /\ parsed.val.crc = chunk.crc

\* a serialized chunk with the empty payload was parsed back
C1_Witness == tamper = "none" /\ parsed # NoResult /\ chunk # NoChunk /\ chunk.data = << >>

\* C2: with one bit of the payload or of the CRC field of a serialized chunk
\* flipped, try_from fails, and fails with the CRC error: not the length
\* error, not a panic, not success.
C2_TamperDetected ==
    (tamper \in { "data", "crc" } /\ parsed # NoResult) =>
        /\ ~parsed.ok
        /\ parsed.err = "InvalidData: Invalid CRC"

\* a chunk with a bit of its payload flipped was parsed
C2_Witness == tamper = "data" /\ parsed # NoResult /\ Len(buf) = 12 + MaxLen

\* the big-endian number in bytes i .. i + 3 of b
BeNumber(b, i) == ((b[i] * 256 + b[i + 1]) * 256 + b[i + 2]) * 256 + b[i + 3]

\* C7: as_bytes is the payload length as 4 big-endian bytes, the 4 type bytes,
\* the payload, the 4 CRC bytes (the model keeps a u32 as its big-endian
\* bytes), in that order; it is payload length + 12 bytes long, and length()
\* counts the payload bytes only.
C7_Layout ==
    (tamper = "none") =>
        LET n == Len(buf) - 12
        IN  /\ n = Len(chunk.data)
            /\ BeNumber(buf, 1) = n
            /\ \A i \in 1..4 : buf[4 + i] = chunk.chunk_type[i]
            /\ \A i \in 1..n : buf[8 + i] = chunk.data[i]
            /\ \A i \in 1..4 : buf[8 + n + i] = chunk.crc[i]
            /\ Chunk_length(chunk) = n

\* a chunk with a payload of the greatest length was serialized
C7_Witness == tamper = "none" /\ Len(chunk.data) = MaxLen /\ Len(buf) = MaxLen + 12

\* C9: try_from of any byte slice, one shorter than 12 bytes too, is a chunk
\* or an error value, and a declared length that differs from the bytes
\* between type and CRC is the InvalidData length error; never a panic.
C9_NoPanic ==
    (parsed # NoResult) =>
        /\ parsed.err # "panic"
        /\ (tamper = "length" => parsed.err = "InvalidData: Invalid data length")

(***************************************************************************)
(* The command runs: a file is on disk, and commands run one after another *)
(* on it and on the output path.                                           *)
(***************************************************************************)
\* most chunks of a file on disk at the start
MaxChunks == 1

\* the chunks of the files on disk at the start: teSt "h", teSt 0xFF (not
\* UTF-8) and RuSt "h"
FileChunks ==
    { Chunk_new(<< 116, 101, 83, 116 >>, << 104 >>),
      Chunk_new(<< 116, 101, 83, 116 >>, << 255 >>),
      Chunk_new(<< 82, 117, 83, 116 >>, << 104 >>) }

GoodFiles ==
    { Png_as_bytes(cs) : cs \in UNION { [ 1..k -> FileChunks ] : k \in 0..MaxChunks } }

\* a well-formed file of one chunk, and damaged copies of it: cut before the
\* signature ends, a wrong signature, the last byte cut, a wrong CRC, a digit
\* in the type, a longer declared length
OneChunkFile == Png_as_bytes(<< Chunk_new(<< 116, 101, 83, 116 >>, << 104 >>) >>)

BadFiles ==
    { SubSeq(OneChunkFile, 1, 5),
      [ OneChunkFile EXCEPT ![1] = 0 ],
      SubSeq(OneChunkFile, 1, Len(OneChunkFile) - 1),
      [ OneChunkFile EXCEPT ![Len(OneChunkFile)] = Xor(@, 1) ],
      [ OneChunkFile EXCEPT ![14] = 53 ],
      [ OneChunkFile EXCEPT ![12] = 2 ] }

\* the chunk_type arguments: "RuSt", "teSt", "abc" and "te5t"
TypeArgs == TypeSamples \cup { << 97, 98, 99 >>, << 116, 101, 53, 116 >> }

\* the message arguments (a String is UTF-8): "" and "hé"
Messages == { << >>, << 104, 195, 169 >> }

Init ==
    /\ chunk = NoChunk
    /\ buf = << >>
    /\ tamper = "unset"
    /\ parsed = NoResult
    /\ \E f \in { NoFile } \cup { File(b) : b \in GoodFiles \cup BadFiles } :
         fs = [ p \in Paths |-> IF p = "in.png" THEN f ELSE NoFile ]
    /\ cmd = NoCmd
    /\ loaded = << >>
    /\ png = << >>
    /\ status = [ result |-> "none", stage |-> "none" ]
    /\ stdout = << >>
    /\ steps = 0

Apply(a, o) ==
    /\ fs' = o.fs
    /\ cmd' = a
    /\ loaded' = o.loaded
    /\ png' = o.png
    /\ status' = o.status
    /\ stdout' = o.stdout
    /\ steps' = steps + 1
    /\ UNCHANGED chunkVars

EncodeCmd ==
    /\ steps < MaxSteps
    /\ \E fp \in Paths :
         \E g \in { get_png(fs, fp) } :
             \E ct \in TypeArgs, m \in Messages, op \in { "", "out.png" },
                w \in WriteOutcomes :
               LET a == [ name |-> "encode", file_path |-> fp, chunk_type |-> ct,
                          message |-> m, output_path |-> op ]
               IN  \E o \in { encode(g, fs, a, w) } : Apply(a, o)

DecodeCmd ==
    /\ steps < MaxSteps
    /\ \E fp \in Paths :
         \E g \in { get_png(fs, fp) } :
             \E ct \in TypeArgs :
               LET a == [ name |-> "decode", file_path |-> fp, chunk_type |-> ct,
                          message |-> << >>, output_path |-> "" ]
               IN  \E o \in { decode(g, fs, a) } : Apply(a, o)

RemoveCmd ==
    /\ steps < MaxSteps
    /\ \E fp \in Paths :
         \E g \in { get_png(fs, fp) } :
             \E ct \in TypeArgs, w \in WriteOutcomes :
               LET a == [ name |-> "remove", file_path |-> fp, chunk_type |-> ct,
                          message |-> << >>, output_path |-> "" ]
               IN  \E o \in { remove(g, fs, a, w) } : Apply(a, o)

PrintCmd ==
    /\ steps < MaxSteps
    /\ \E fp \in Paths :
         LET a == [ name |-> "print", file_path |-> fp, chunk_type |-> << >>,
                    message |-> << >>, output_path |-> "" ]
         IN  \E o \in { print(get_png(fs, fp), fs) } : Apply(a, o)

\* main: one of the four commands
Next == EncodeCmd \/ DecodeCmd \/ RemoveCmd \/ PrintCmd

Spec == Init /\ [][Next]_vars
(***************************************************************************)
(* Properties of the command runs.                                         *)
(***************************************************************************)
\* the path a command writes: output_path, or file_path when there is none
Target(c) == IF c.output_path # "" THEN c.output_path ELSE c.file_path

\* 4 bytes, each an ASCII letter
IsTypeString(t) == Len(t) = 4 /\ \A i \in 1..4 : IsLetter(t[i])

CrcHolds(c) == c.crc = checksum(c.chunk_type \o c.data)

\* C3: every chunk a command holds, parsed from a file by Chunk::try_from or
\* built by Chunk::new, has crc = CRC32(type bytes ++ data); every chunk of
\* the Png at the end of the command is, unchanged, a chunk that was loaded
\* or the one chunk encode built from its arguments; and the file a command
\* wrote parses back to exactly the chunks the Png held.
C3_CrcInvariant ==
    /\ \A i \in 1..Len(loaded) : CrcHolds(loaded[i])
    /\ \A i \in 1..Len(png) : CrcHolds(png[i])
    /\ \A i \in 1..Len(png) :
         \/ \E j \in 1..Len(loaded) : png[i] = loaded[j]
         \/ /\ cmd.name = "encode"
            /\ i = Len(png)
            /\ png[i].chunk_type = cmd.chunk_type
            /\ png[i].data = cmd.message
    /\ (cmd.name \in { "encode", "remove" } /\ status.stage = "done") =>
         Png_try_from(fs[Target(cmd)].bytes) = PngOk(png)

\* encode ended well with a Png of a loaded chunk and the chunk it built
C3_Witness ==
    /\ cmd.name = "encode"
    /\ status.result = "Ok"
    /\ Len(loaded) >= 1
    /\ Len(png) = Len(loaded) + 1

\* C4: an encode or remove that ends while loading (a missing file, a parse
\* error), on the chunk type, or on the removal (no chunk of the type) has
\* failed and has left every file as it was: a file changes only in a command
\* that got as far as its write.
C4_NoWriteOnFailure ==
    [][ (cmd'.name \in { "encode", "remove" } /\ status'.stage \in { "load", "type", "op" }) =>
            (fs' = fs /\ status'.result # "Ok") ]_vars

\* remove found no chunk of the type in a file that holds chunks
C4_Witness ==
    /\ cmd.name = "remove"
    /\ status.result = "ChunkNotFound"
    /\ Len(loaded) >= 1

\* C5: after an encode of message m under type T that ended well on a file
\* with no chunk of type T, a decode of the written file with type T ends
\* well and prints exactly m; the file then holds the chunks it held before,
\* in their order, followed by the new chunk.
C5_EncodeThenDecode ==
    [][ ( /\ cmd.name = "encode"
          /\ status.result = "Ok"
          /\ \A i \in 1..Len(loaded) : loaded[i].chunk_type # cmd.chunk_type
          /\ cmd'.name = "decode"
          /\ cmd'.file_path = Target(cmd)
          /\ cmd'.chunk_type = cmd.chunk_type ) =>
        ( /\ status'.result = "Ok"
          /\ stdout' = << cmd.message >>
          /\ Len(loaded') = Len(loaded) + 1
          /\ SubSeq(loaded', 1, Len(loaded)) = loaded
          /\ loaded'[Len(loaded')].chunk_type = cmd.chunk_type
          /\ loaded'[Len(loaded')].data = cmd.message ) ]_vars

\* a decode printed the message "hé", which only an encode can have put
\* there, from a file whose first chunk is an older one
C5_Witness ==
    /\ cmd.name = "decode"
    /\ status.result = "Ok"
    /\ stdout = << << 104, 195, 169 >> >>
    /\ Len(loaded) >= 2
    /\ loaded[Len(loaded)].chunk_type = cmd.chunk_type
    /\ loaded[1].chunk_type # cmd.chunk_type

\* C6: a remove of type T that got past loading removes exactly the earliest
\* chunk of type T, which is the chunk remove_first_chunk returns, and keeps
\* every other chunk in place and in order (the file it writes holds them);
\* with no chunk of type T it fails with ChunkNotFound and the chunks stay.
C6_FirstMatchRemoval ==
    (cmd.name = "remove" /\ status.stage # "load" /\ IsTypeString(cmd.chunk_type)) =>
        LET hits == { i \in 1..Len(loaded) : loaded[i].chunk_type = cmd.chunk_type }
            r == Png_remove_first_chunk(loaded, cmd.chunk_type)
        IN  IF hits = {}
            THEN /\ status.result = "ChunkNotFound"
                 /\ ~r.ok
                 /\ png = loaded
                 /\ get_png(fs, cmd.file_path) = PngOk(loaded)
            ELSE \E i \in hits :
                   /\ \A j \in hits : i <= j
                   /\ r.ok
                   /\ r.val = loaded[i]
                   /\ Len(png) = Len(loaded) - 1
                   /\ \A j \in 1..(i - 1) : png[j] = loaded[j]
                   /\ \A j \in i..Len(png) : png[j] = loaded[j + 1]
                   /\ status.result \in { "Ok", "Io: write" }
                   /\ (status.result = "Ok" => get_png(fs, cmd.file_path) = PngOk(png))

\* a remove took the earlier of two different chunks of the same type
C6_Witness ==
    /\ cmd.name = "remove"
    /\ status.result = "Ok"
    /\ Len(loaded) = 2
    /\ loaded[1].chunk_type = cmd.chunk_type
    /\ loaded[2].chunk_type = cmd.chunk_type
    /\ loaded[1] # loaded[2]
    /\ png = << loaded[2] >>

\* C8: an encode whose file loaded and whose chunk_type argument is not 4
\* ASCII letters (another length, or a byte that is no letter) fails with the
\* InvalidChunkType error, returned as an error value.
C8_InvalidTypeIsError ==
    (cmd.name = "encode" /\ status.stage # "load" /\ ~IsTypeString(cmd.chunk_type)) =>
        status.result = "InvalidChunkType"

\* the index of the first chunk whose payload is not UTF-8, or 0
FirstNonText(chunks) ==
    LET bad == { i \in 1..Len(chunks) : ~ValidUtf8From(chunks[i].data, 1) }
    IN  IF bad = {} THEN 0 ELSE CHOOSE i \in bad : \A j \in bad : i <= j

\* C10: a decode whose first chunk of the type is not UTF-8, and a print of a
\* file with a chunk that is not UTF-8, fail with the InvalidUtf8 error; print
\* has then printed the chunks before that one, and none after it.
C10_NonTextIsError ==
    /\ ( /\ cmd.name = "decode"
         /\ status.stage # "load"
         /\ FirstOfType(loaded, cmd.chunk_type) # 0
         /\ ~ValidUtf8From(loaded[FirstOfType(loaded, cmd.chunk_type)].data, 1) ) =>
           (status.result = "InvalidUtf8" /\ stdout = << >>)
    /\ ( /\ cmd.name = "print"
         /\ status.stage # "load"
         /\ FirstNonText(loaded) # 0 ) =>
           /\ status.result = "InvalidUtf8"
           /\ stdout = [ i \in 1..(FirstNonText(loaded) - 1) |-> loaded[i].data ]
====
